---- MODULE Spec2Model ----
(***************************************************************************)
(* Model of colmap::retrieval::InvertedFile<N>                             *)
(* (src/src/retrieval/inverted_file.h): one inverted file, the operations  *)
(* of its public interface, and the binary file it is written to and read  *)
(* from.                                                                   *)
(*                                                                         *)
(* Numbers.  Projected descriptors and thresholds are floats in the code;  *)
(* the model draws them from small integers, on which > and the median are *)
(* exact.  idf_weight_ = log(1 + n/u) is kept as the reduced fraction      *)
(* <<n, u>> (log(1 + x) is injective, and log(1 + 0) = 0.0f is the         *)
(* constructor's value).  A score is kept as the three numbers the code    *)
(* combines: the accumulated weight, the number of votes and the idf       *)
(* weight, standing for (sum / sqrt(votes)) * idf^2.                       *)
(***************************************************************************)
EXTENDS Integers, Sequences, FiniteSets, TLC

(***************************************************************************)
(* Bounds of the model.                                                    *)
(***************************************************************************)
\* Longest entries_ the build operations grow under Spec.
MaxEntries == 3
\* Longest entries_ the build operations grow under SpecIO.
MaxIOEntries == 2

(***************************************************************************)
(* Program constants.                                                      *)
(***************************************************************************)
\* template <int N>: the smallest N the static_asserts accept.
N == 8
UNUSABLE == 0
HAS_HAMMING_EMBEDDING == 1
ENTRIES_SORTED == 2
USABLE == 3

Dims == 0 .. (N - 1)

(***************************************************************************)
(* uint8_t arithmetic on status_.                                          *)
(***************************************************************************)
RECURSIVE BitAndW(_, _, _)
BitAndW(a, b, w) ==
  IF w = 0 THEN 0
  ELSE (IF a % 2 = 1 /\ b % 2 = 1 THEN 1 ELSE 0)
       + 2 * BitAndW(a \div 2, b \div 2, w - 1)

\* a & b on 8-bit values.
BitAnd(a, b) == BitAndW(a % 256, b % 256, 8)

\* a | b on 8-bit values.
BitOr(a, b) == (a % 256) + (b % 256) - BitAnd(a, b)

\* a & ~b, stored back into a uint8_t.
BitClear(a, b) == BitAnd(a, 255 - (b % 256))

(***************************************************************************)
(* Inputs.                                                                 *)
(***************************************************************************)
\* Projected descriptors (Desc): vectors of N values.
DescOnes == [i \in Dims |-> 1]
DescMost == [i \in Dims |-> IF i < 6 THEN 1 ELSE -1]
DescStep == [i \in Dims |-> IF i % 2 = 0 THEN 2 ELSE 0]

Descs == {DescOnes, DescMost}
IODescs == {DescOnes, DescStep}

\* -1 trips CHECK_GE(image_id, 0).
ImageIds == {-1, 0, 1}

\* Eigen::Matrix<float, Dynamic, N>: a sequence of M rows, M = 0, 1, 2, 3.
Matrices == {<<>>, <<DescOnes>>, <<DescOnes, DescMost>>,
             <<DescMost, DescOnes, DescMost>>}
IOMatrices == {<<>>, <<DescStep, DescStep>>}

TotalImages == {0, 2}
IOTotalImages == {0, 1}

\* What a reader was populated with before it reads.
LoadDesc == DescOnes
LoadMatrix == <<DescMost, DescMost>>

VARIABLES
  status_,      \* uint8_t status_
  idf_weight_,  \* float idf_weight_, as a reduced fraction <<n, u>> for log(1 + n/u)
  entries_,     \* std::vector<InvertedFileEntry<N>> entries_
  thresholds_,  \* Desc thresholds_
  stream,       \* the bytes a Write put on the stream that no Read consumed yet
  written,      \* history: the object's fields at the Write that filled stream
  op,           \* the operation called last
  pre,          \* history: status_, NumEntries(), idf_weight_, thresholds_ when the last call began
  ret,          \* the out-parameters of the last call as it returned
  aborted       \* a CHECK failed: the process is gone

vars == <<status_, idf_weight_, entries_, thresholds_, stream, written, op, pre,
          ret, aborted>>

object == <<status_, idf_weight_, entries_, thresholds_>>

ZeroIdf == <<0, 1>>
ZeroThresholds == [i \in Dims |-> 0]

\* What a call hands back: the content of its output container, whether it
\* threw, and two facts about the arguments as the call left them: stale is
\* the number of elements the caller's container held when ScoreFeature began,
\* failbit the fail state of the caller's stream when Read returned.
NoRet == [image_scores |-> <<>>, ids |-> {}, self_similarities |-> <<>>,
          threw |-> FALSE, stale |-> 0, failbit |-> FALSE]

NoFile == [status |-> 0, idf_weight |-> ZeroIdf, thresholds |-> ZeroThresholds,
           entries |-> <<>>]

Pre == [status |-> status_, num_entries |-> Len(entries_),
        idf_weight |-> idf_weight_, thresholds |-> thresholds_]

(***************************************************************************)
(* Accessors.                                                              *)
(***************************************************************************)
NumEntries == Len(entries_)

HasHammingEmbedding == BitAnd(status_, HAS_HAMMING_EMBEDDING) # 0

EntriesSorted == BitAnd(status_, ENTRIES_SORTED) # 0

\* return status_ & USABLE;  converted to bool
IsUsable == BitAnd(status_, USABLE) # 0

IDFWeight == idf_weight_

(***************************************************************************)
(* InvertedFile()                                                          *)
(***************************************************************************)
Init ==
  /\ status_ = UNUSABLE
  /\ idf_weight_ = ZeroIdf
  /\ entries_ = <<>>
  /\ thresholds_ = ZeroThresholds
  /\ stream = <<>>
  /\ written = NoFile
  /\ op = "InvertedFile"
  /\ pre = [status |-> UNUSABLE, num_entries |-> 0, idf_weight |-> ZeroIdf,
            thresholds |-> ZeroThresholds]
  /\ ret = NoRet
  /\ aborted = FALSE

\* A failed CHECK: the process aborts with every field as it was.
Abort(name) ==
  /\ aborted' = TRUE
  /\ op' = name
  /\ pre' = Pre
  /\ ret' = NoRet
  /\ UNCHANGED <<object, stream, written>>

\* What every returning call records.
Returns(name, out) ==
  /\ aborted' = FALSE
  /\ op' = name
  /\ pre' = Pre
  /\ ret' = out

(***************************************************************************)
(* ConvertToBinaryDescriptor                                               *)
(***************************************************************************)
\* The conversion with >= in place of >.
ConvertToBinaryDescriptorNonStrict(descriptor, thresholds) ==
  [i \in Dims |-> descriptor[i] >= thresholds[i]]

ConvertToBinaryDescriptor(descriptor, thresholds) ==
  [i \in Dims |-> descriptor[i] > thresholds[i]]

(***************************************************************************)
(* AddEntry                                                                *)
(***************************************************************************)
\* AddEntry without status_ &= ~ENTRIES_SORTED.
AddEntryKeepsStatus(image_id, descriptor) ==
  /\ ~aborted
  /\ IF image_id >= 0
     THEN /\ entries_' = Append(entries_,
                 [image_id |-> image_id,
                  descriptor |-> ConvertToBinaryDescriptor(descriptor, thresholds_)])
          /\ UNCHANGED <<status_, idf_weight_, thresholds_, stream, written>>
          /\ Returns("AddEntry", NoRet)
     ELSE Abort("AddEntry")

\* AddEntry that clears both status flags.
AddEntryClearsFlags(image_id, descriptor) ==
  /\ ~aborted
  /\ IF image_id >= 0
     THEN /\ entries_' = Append(entries_,
                 [image_id |-> image_id,
                  descriptor |-> ConvertToBinaryDescriptor(descriptor, thresholds_)])
          /\ status_' = BitClear(status_, USABLE)
          /\ UNCHANGED <<idf_weight_, thresholds_, stream, written>>
          /\ Returns("AddEntry", NoRet)
     ELSE Abort("AddEntry")

\* AddEntry with the entry inserted at the front.
AddEntryFront(image_id, descriptor) ==
  /\ ~aborted
  /\ IF image_id >= 0
     THEN /\ entries_' =
                 <<[image_id |-> image_id,
                    descriptor |-> ConvertToBinaryDescriptor(descriptor, thresholds_)]>>
                 \o entries_
          /\ status_' = BitClear(status_, ENTRIES_SORTED)
          /\ UNCHANGED <<idf_weight_, thresholds_, stream, written>>
          /\ Returns("AddEntry", NoRet)
     ELSE Abort("AddEntry")

AddEntry(image_id, descriptor) ==
  /\ ~aborted
  /\ IF image_id >= 0
     THEN /\ entries_' = Append(entries_,
                 [image_id |-> image_id,
                  descriptor |-> ConvertToBinaryDescriptor(descriptor, thresholds_)])
          /\ status_' = BitClear(status_, ENTRIES_SORTED)
          /\ UNCHANGED <<idf_weight_, thresholds_, stream, written>>
          /\ Returns("AddEntry", NoRet)
     ELSE Abort("AddEntry")

(***************************************************************************)
(* SortEntries: std::sort by image_id.  std::sort is not stable, so the    *)
(* result is any arrangement of the entries that is ordered by image_id.   *)
(***************************************************************************)
IsSortedById(es) ==
  \A i \in 1 .. (Len(es) - 1) : ~(es[i + 1].image_id < es[i].image_id)

Arrangements(es) ==
  LET n == Len(es)
      perms == {p \in [1 .. n -> 1 .. n] : \A i, j \in 1 .. n : p[i] = p[j] => i = j}
  IN {[i \in 1 .. n |-> es[p[i]]] : p \in perms}

SortedArrangements(es) == {s \in Arrangements(es) : IsSortedById(s)}

\* SortEntries with the comparison reversed.
SortEntriesDescending ==
  /\ ~aborted
  /\ entries_' \in {s \in Arrangements(entries_) :
                     \A i \in 1 .. (Len(s) - 1) : ~(s[i].image_id < s[i + 1].image_id)}
  /\ status_' = BitOr(status_, ENTRIES_SORTED)
  /\ UNCHANGED <<idf_weight_, thresholds_, stream, written>>
  /\ Returns("SortEntries", NoRet)

\* SortEntries with status_ = USABLE in place of status_ |= ENTRIES_SORTED.
SortEntriesSetsUsable ==
  /\ ~aborted
  /\ entries_' \in SortedArrangements(entries_)
  /\ status_' = USABLE
  /\ UNCHANGED <<idf_weight_, thresholds_, stream, written>>
  /\ Returns("SortEntries", NoRet)

SortEntries ==
  /\ ~aborted
  /\ entries_' \in SortedArrangements(entries_)
  /\ status_' = BitOr(status_, ENTRIES_SORTED)
  /\ UNCHANGED <<idf_weight_, thresholds_, stream, written>>
  /\ Returns("SortEntries", NoRet)

(***************************************************************************)
(* ClearEntries, Reset                                                     *)
(***************************************************************************)
\* ClearEntries that also zeroes the idf weight.
ClearEntriesZeroesIdf ==
  /\ ~aborted
  /\ entries_' = <<>>
  /\ status_' = BitClear(status_, ENTRIES_SORTED)
  /\ idf_weight_' = ZeroIdf
  /\ UNCHANGED <<thresholds_, stream, written>>
  /\ Returns("ClearEntries", NoRet)

\* ClearEntries that marks the emptied entries as sorted.
ClearEntriesMarksSorted ==
  /\ ~aborted
  /\ entries_' = <<>>
  /\ status_' = BitOr(status_, ENTRIES_SORTED)
  /\ UNCHANGED <<idf_weight_, thresholds_, stream, written>>
  /\ Returns("ClearEntries", NoRet)

ClearEntries ==
  /\ ~aborted
  /\ entries_' = <<>>
  /\ status_' = BitClear(status_, ENTRIES_SORTED)
  /\ UNCHANGED <<idf_weight_, thresholds_, stream, written>>
  /\ Returns("ClearEntries", NoRet)

\* Reset without thresholds_.setZero().
ResetKeepsThresholds ==
  /\ ~aborted
  /\ status_' = UNUSABLE
  /\ idf_weight_' = ZeroIdf
  /\ entries_' = <<>>
  /\ UNCHANGED <<thresholds_, stream, written>>
  /\ Returns("Reset", NoRet)

Reset ==
  /\ ~aborted
  /\ status_' = UNUSABLE
  /\ idf_weight_' = ZeroIdf
  /\ entries_' = <<>>
  /\ thresholds_' = ZeroThresholds
  /\ UNCHANGED <<stream, written>>
  /\ Returns("Reset", NoRet)

(***************************************************************************)
(* GetImageIds: inserts into the caller's set, which it does not clear.    *)
(***************************************************************************)
ImageIdsOf(es) == {es[i].image_id : i \in 1 .. Len(es)}

GetImageIdsInto(ids) == ids \cup ImageIdsOf(entries_)

GetImageIds(ids) ==
  /\ ~aborted
  /\ UNCHANGED <<object, stream, written>>
  /\ Returns("GetImageIds", [NoRet EXCEPT !.ids = GetImageIdsInto(ids)])

(***************************************************************************)
(* ComputeIDFWeight                                                        *)
(***************************************************************************)
RECURSIVE GCD(_, _)
GCD(a, b) == IF b = 0 THEN a ELSE GCD(b, a % b)

\* log(1.0 + n / u), as the fraction n/u in lowest terms.
LogOnePlus(n, u) == LET g == GCD(n, u) IN <<n \div g, u \div g>>

\* ComputeIDFWeight that divides by the number of entries.
ComputeIDFWeightPerEntry(num_total_images) ==
  /\ ~aborted
  /\ IF entries_ = <<>>
     THEN UNCHANGED idf_weight_
     ELSE idf_weight_' = LogOnePlus(num_total_images, Len(entries_))
  /\ UNCHANGED <<status_, entries_, thresholds_, stream, written>>
  /\ Returns("ComputeIDFWeight", NoRet)

\* ComputeIDFWeight that zeroes the weight of an empty file.
ComputeIDFWeightZeroOnEmpty(num_total_images) ==
  /\ ~aborted
  /\ IF entries_ = <<>>
     THEN idf_weight_' = ZeroIdf
     ELSE idf_weight_' = LogOnePlus(num_total_images,
                                    Cardinality(GetImageIdsInto({})))
  /\ UNCHANGED <<status_, entries_, thresholds_, stream, written>>
  /\ Returns("ComputeIDFWeight", NoRet)

ComputeIDFWeight(num_total_images) ==
  /\ ~aborted
  /\ IF entries_ = <<>>
     THEN UNCHANGED idf_weight_
     ELSE idf_weight_' = LogOnePlus(num_total_images,
                                    Cardinality(GetImageIdsInto({})))
  /\ UNCHANGED <<status_, entries_, thresholds_, stream, written>>
  /\ Returns("ComputeIDFWeight", NoRet)

(***************************************************************************)
(* ComputeHammingEmbedding.  Median (util/math.h) takes the lower middle   *)
(* element when the number of elements is even.                            *)
(***************************************************************************)
Median(elements) ==
  LET M == Len(elements)
      k == (M - 1) \div 2
      below(v) == Cardinality({i \in 1 .. M : elements[i] < v})
      upto(v) == Cardinality({i \in 1 .. M : elements[i] <= v})
  IN CHOOSE v \in {elements[i] : i \in 1 .. M} : below(v) <= k /\ upto(v) > k

\* ComputeHammingEmbedding that asks for more than two descriptors.
ComputeHammingEmbeddingOffByOne(descriptors) ==
  /\ ~aborted
  /\ LET num_descriptors == Len(descriptors)
     IN IF num_descriptors <= 2
        THEN UNCHANGED <<thresholds_, status_>>
        ELSE /\ thresholds_' =
                  [n \in Dims |->
                     Median([i \in 1 .. num_descriptors |-> descriptors[i][n]])]
             /\ status_' = BitOr(status_, HAS_HAMMING_EMBEDDING)
  /\ UNCHANGED <<idf_weight_, entries_, stream, written>>
  /\ Returns("ComputeHammingEmbedding", NoRet)

ComputeHammingEmbedding(descriptors) ==
  /\ ~aborted
  /\ LET num_descriptors == Len(descriptors)
     IN IF num_descriptors < 2
        THEN UNCHANGED <<thresholds_, status_>>
        ELSE /\ thresholds_' =
                  [n \in Dims |->
                     Median([i \in 1 .. num_descriptors |-> descriptors[i][n]])]
             /\ status_' = BitOr(status_, HAS_HAMMING_EMBEDDING)
  /\ UNCHANGED <<idf_weight_, entries_, stream, written>>
  /\ Returns("ComputeHammingEmbedding", NoRet)

(***************************************************************************)
(* ScoreFeature                                                            *)
(***************************************************************************)
\* (bin_descriptor ^ entry.descriptor).count()
HammingDist(a, b) == Cardinality({i \in Dims : a[i] # b[i]})

\* hamming_dist_weight_functor_ (retrieval/utils.h), in quarters:
\* w(d) = max(0, 1 - d/4).
HammingDistWeight(d) == IF d < 4 THEN 4 - d ELSE 0

\* The normalization by the number of all entries of the file.
PushScoreAllVotes(image_scores, image_id, score, num_image_votes) ==
  Append(image_scores,
         [image_id |-> image_id,
          score |-> [sum |-> score, votes |-> Len(entries_),
                     idf |-> idf_weight_]])

\* score /= sqrt(num_image_votes); score *= squared_idf_weight; push_back
PushScore(image_scores, image_id, score, num_image_votes) ==
  Append(image_scores,
         [image_id |-> image_id,
          score |-> [sum |-> score, votes |-> num_image_votes,
                     idf |-> idf_weight_]])

\* The sweep that starts a new pair whenever the image id changes.
RECURSIVE ScoreSweepOnChange(_, _, _, _, _, _)
ScoreSweepOnChange(i, bin_descriptor, image_id, score, num_image_votes, image_scores) ==
  IF i > Len(entries_)
  THEN IF num_image_votes > 0
       THEN PushScore(image_scores, image_id, score, num_image_votes)
       ELSE image_scores
  ELSE LET entry == entries_[i]
           next == image_id # entry.image_id
           w == HammingDistWeight(HammingDist(bin_descriptor, entry.descriptor))
       IN IF next
          THEN ScoreSweepOnChange(i + 1, bin_descriptor, entry.image_id, w, 1,
                                  IF num_image_votes > 0
                                  THEN PushScore(image_scores, image_id, score,
                                                 num_image_votes)
                                  ELSE image_scores)
          ELSE ScoreSweepOnChange(i + 1, bin_descriptor, image_id, score + w,
                                  num_image_votes + 1, image_scores)

\* The sweep without the push_back after the loop.
RECURSIVE ScoreSweepDropsLast(_, _, _, _, _, _)
ScoreSweepDropsLast(i, bin_descriptor, image_id, score, num_image_votes, image_scores) ==
  IF i > Len(entries_)
  THEN image_scores
  ELSE LET entry == entries_[i]
           next == image_id < entry.image_id
           w == HammingDistWeight(HammingDist(bin_descriptor, entry.descriptor))
       IN IF next
          THEN ScoreSweepDropsLast(i + 1, bin_descriptor, entry.image_id, w, 1,
                                   IF num_image_votes > 0
                                   THEN PushScore(image_scores, image_id, score,
                                                  num_image_votes)
                                   ELSE image_scores)
          ELSE ScoreSweepDropsLast(i + 1, bin_descriptor, image_id, score + w,
                                   num_image_votes + 1, image_scores)

\* The range-for over entries_, from entry number i on.
RECURSIVE ScoreSweep(_, _, _, _, _, _)
ScoreSweep(i, bin_descriptor, image_id, score, num_image_votes, image_scores) ==
  IF i > Len(entries_)
  THEN IF num_image_votes > 0
       THEN PushScore(image_scores, image_id, score, num_image_votes)
       ELSE image_scores
  ELSE LET entry == entries_[i]
           next == image_id < entry.image_id
           w == HammingDistWeight(HammingDist(bin_descriptor, entry.descriptor))
       IN IF next
          THEN ScoreSweep(i + 1, bin_descriptor, entry.image_id, w, 1,
                          IF num_image_votes > 0
                          THEN PushScore(image_scores, image_id, score,
                                         num_image_votes)
                          ELSE image_scores)
          ELSE ScoreSweep(i + 1, bin_descriptor, image_id, score + w,
                          num_image_votes + 1, image_scores)

\* ScoreFeature without image_scores->clear().
ScoreFeatureOutAppends(descriptor, image_scores) ==
  IF ~IsUsable THEN image_scores
  ELSE IF Len(entries_) = 0 THEN image_scores
  ELSE ScoreSweep(1, ConvertToBinaryDescriptor(descriptor, thresholds_),
                  entries_[1].image_id, 0, 0, image_scores)

\* The content of *image_scores when ScoreFeature returns; image_scores is
\* its content when the call begins.
ScoreFeatureOut(descriptor, image_scores) ==
  IF ~IsUsable THEN <<>>
  ELSE IF Len(entries_) = 0 THEN <<>>
  ELSE ScoreSweep(1, ConvertToBinaryDescriptor(descriptor, thresholds_),
                  entries_[1].image_id, 0, 0, <<>>)

ScoreFeature(descriptor, image_scores) ==
  /\ ~aborted
  /\ UNCHANGED <<object, stream, written>>
  /\ Returns("ScoreFeature",
             [NoRet EXCEPT !.image_scores = ScoreFeatureOut(descriptor, image_scores),
                           !.stale = Len(image_scores)])

\* A container that a caller reuses: what an earlier call left in it.
StaleScore == [image_id |-> 0, score |-> [sum |-> 4, votes |-> 1, idf |-> <<1, 1>>]]

ScoreContainers == {<<>>, <<StaleScore>>}

(***************************************************************************)
(* ComputeImageSelfSimilarities: element image_id of the caller's vector   *)
(* grows by idf_weight_^2 per entry; the vector is kept as the number of   *)
(* additions per element.  vector::at throws on an index out of range.     *)
(***************************************************************************)
RECURSIVE SelfSimSweep(_, _)
SelfSimSweep(i, self_similarities) ==
  IF i > Len(entries_)
  THEN [self_similarities |-> self_similarities, threw |-> FALSE]
  ELSE LET id == entries_[i].image_id
       IN IF id < 0 \/ id >= Len(self_similarities)
          THEN [self_similarities |-> self_similarities, threw |-> TRUE]
          ELSE SelfSimSweep(i + 1, [self_similarities EXCEPT ![id + 1] = @ + 1])

ComputeImageSelfSimilarities(self_similarities) ==
  /\ ~aborted
  /\ UNCHANGED <<object, stream, written>>
  /\ LET r == SelfSimSweep(1, self_similarities)
     IN Returns("ComputeImageSelfSimilarities",
                [NoRet EXCEPT !.self_similarities = r.self_similarities,
                              !.threw = r.threw])

SelfSimVectors == {[i \in 1 .. n |-> 0] : n \in {1, 2}}

(***************************************************************************)
(* The binary format.  A file is the sequence of the bytes written, except *)
(* that a float is one element (its four bytes): the status byte, the idf  *)
(* weight, N thresholds, the entry count (uint32_t, four bytes), and per   *)
(* entry (retrieval/inverted_file_entry.h) the image id (four bytes, as in *)
(* memory: little-endian two's complement) and N/8 signature bytes, bit    *)
(* 8b+j of the signature being bit j of byte b.                            *)
(***************************************************************************)
RECURSIVE Pow2(_)
Pow2(n) == IF n = 0 THEN 1 ELSE 2 * Pow2(n - 1)

SigBytes == N \div 8

EntrySize == 4 + SigBytes

\* The four bytes of a 32-bit integer, least significant first.
Int32Bytes(x) ==
  LET low == IF x < 0 THEN (x + Pow2(30)) + Pow2(30) ELSE x
  IN <<low % 256, (low \div 256) % 256, (low \div 65536) % 256,
       (low \div Pow2(24)) + (IF x < 0 THEN 128 ELSE 0)>>

\* The int in bytes pos..pos+3 of the stream.
Int32At(bytes, pos) ==
  LET low == bytes[pos] + 256 * bytes[pos + 1] + 65536 * bytes[pos + 2]
             + Pow2(24) * (bytes[pos + 3] % 128)
  IN IF bytes[pos + 3] >= 128 THEN (low - Pow2(30)) - Pow2(30) ELSE low

RECURSIVE PackBits(_, _, _)
PackBits(descriptor, b, j) ==
  IF j = 8 THEN 0
  ELSE (IF descriptor[8 * b + j] THEN Pow2(j) ELSE 0) + PackBits(descriptor, b, j + 1)

EntryWrite(entry) ==
  Int32Bytes(entry.image_id)
  \o [b \in 1 .. SigBytes |-> PackBits(entry.descriptor, b - 1, 0)]

\* The four bytes a read of a 32-bit integer at position pos leaves in the
\* integer, whose bytes were old: istream::read stores the bytes the stream
\* still has and leaves the others.
Int32Read(bytes, pos, old) ==
  [k \in 1 .. 4 |-> IF pos + k - 1 <= Len(bytes) THEN bytes[pos + k - 1] ELSE old[k]]

\* An entry read at position pos of the stream; a byte the stream ends
\* before stays as it is in entry.
EntryRead(bytes, pos, entry) ==
  [image_id |-> Int32At(Int32Read(bytes, pos, Int32Bytes(entry.image_id)), 1),
   descriptor |->
     [i \in Dims |->
        IF pos + 4 + (i \div 8) <= Len(bytes)
        THEN (bytes[pos + 4 + (i \div 8)] \div Pow2(i % 8)) % 2 = 1
        ELSE entry.descriptor[i]]]

\* A value-initialized InvertedFileEntry<N>.
DefaultEntry == [image_id |-> -1, descriptor |-> [i \in Dims |-> FALSE]]

RECURSIVE Concat(_)
Concat(ss) == IF ss = <<>> THEN <<>> ELSE Head(ss) \o Concat(Tail(ss))

\* The bytes Write puts on the stream.
Serialized ==
  <<status_, idf_weight_>>
  \o [i \in 1 .. N |-> thresholds_[i - 1]]
  \o Int32Bytes(Len(entries_))
  \o Concat([i \in 1 .. Len(entries_) |-> EntryWrite(entries_[i])])

Write(is_open) ==
  /\ ~aborted
  /\ IF is_open
     THEN /\ stream' = stream \o Serialized
          /\ written' = [status |-> status_, idf_weight |-> idf_weight_,
                         thresholds |-> thresholds_, entries |-> entries_]
          /\ UNCHANGED object
          /\ Returns("Write", NoRet)
     ELSE Abort("Write")

\* A resize that only grows.
ResizedGrowOnly(num_entries) ==
  [i \in 1 .. (IF num_entries > Len(entries_) THEN num_entries ELSE Len(entries_)) |->
     IF i <= Len(entries_) THEN entries_[i] ELSE DefaultEntry]

\* entries_.resize(num_entries)
Resized(num_entries) ==
  [i \in 1 .. num_entries |-> IF i <= Len(entries_) THEN entries_[i] ELSE DefaultEntry]

\* for (i < num_entries) entries_[i].Read(ifs), on the resized entries
ReadEntries(resized, num_entries) ==
  [i \in 1 .. Len(resized) |->
     IF i <= num_entries
     THEN EntryRead(stream, N + 7 + (i - 1) * EntrySize, resized[i])
     ELSE resized[i]]

Read(is_open) ==
  /\ ~aborted
  /\ IF is_open
     THEN LET have(k) == k <= Len(stream)
              num_entries == Int32At(Int32Read(stream, N + 3, Int32Bytes(0)), 1)
              resized == Resized(num_entries)
              end == N + 6 + num_entries * EntrySize
          IN /\ status_' = IF have(1) THEN stream[1] ELSE status_
             /\ idf_weight_' = IF have(2) THEN stream[2] ELSE idf_weight_
             /\ thresholds_' =
                  [i \in Dims |-> IF have(3 + i) THEN stream[3 + i] ELSE thresholds_[i]]
             /\ entries_' = ReadEntries(resized, num_entries)
             /\ stream' = IF have(end) THEN SubSeq(stream, end + 1, Len(stream))
                          ELSE <<>>
             /\ written' = NoFile
             /\ Returns("Read", [NoRet EXCEPT !.failbit = ~have(end)])
     ELSE Abort("Read")

\* The environment cuts the file short before it is read: only the first
\* cut bytes of the stream are left, which is no longer the file written.
Truncate(cut) ==
  /\ ~aborted
  /\ written # NoFile
  /\ cut < Len(stream)
  /\ stream' = SubSeq(stream, 1, cut)
  /\ written' = NoFile
  /\ UNCHANGED <<object, op, pre, ret, aborted>>

\* Where a file is cut: before the status byte, inside the thresholds, inside
\* the entry count, inside the first entry's image id, and before the first
\* entry's signature.
CutPoints == {0, N, N + 3, N + 8, N + 10}

(***************************************************************************)
(* Specifications.                                                         *)
(* Spec: the build and query operations of one inverted file.              *)
(* SpecIO: every operation, Write and Read included.  A caller writes one  *)
(* file to a stream; until that file is read back, the object the model    *)
(* follows is the one that will read it, prepared by Reset (a freshly      *)
(* constructed reader) or by the Load* inputs (a populated one).           *)
(***************************************************************************)
Next ==
  \/ \E image_id \in ImageIds, descriptor \in Descs :
       Len(entries_) < MaxEntries /\ AddEntry(image_id, descriptor)
  \/ SortEntries
  \/ ClearEntries
  \/ Reset
  \/ \E num_total_images \in TotalImages : ComputeIDFWeight(num_total_images)
  \/ \E descriptors \in Matrices : ComputeHammingEmbedding(descriptors)
  \/ \E descriptor \in Descs, image_scores \in ScoreContainers :
       ScoreFeature(descriptor, image_scores)
  \/ \E ids \in {{}, {0}} : GetImageIds(ids)
  \/ \E self_similarities \in SelfSimVectors :
       ComputeImageSelfSimilarities(self_similarities)

Spec == Init /\ [][Next]_vars

Building == stream = <<>>

Loading == stream # <<>>

NextIO ==
  \/ \E image_id \in ImageIds, descriptor \in IODescs :
       Building /\ Len(entries_) < MaxIOEntries /\ AddEntry(image_id, descriptor)
  \/ Building /\ SortEntries
  \/ Building /\ ClearEntries
  \/ Reset
  \/ \E num_total_images \in IOTotalImages :
       Building /\ ComputeIDFWeight(num_total_images)
  \/ \E descriptors \in IOMatrices :
       Building /\ ComputeHammingEmbedding(descriptors)
  \/ \E descriptor \in IODescs :
       Building /\ ScoreFeature(descriptor, <<>>)
  \/ Building /\ GetImageIds({})
  \/ \E self_similarities \in SelfSimVectors :
       Building /\ ComputeImageSelfSimilarities(self_similarities)
  \/ \E is_open \in BOOLEAN : Building /\ Write(is_open)
  \/ \E is_open \in BOOLEAN : Read(is_open)
  \/ Loading /\ Len(entries_) < MaxIOEntries /\ AddEntry(0, LoadDesc)
  \/ Loading /\ ComputeHammingEmbedding(LoadMatrix)

SpecIO == Init /\ [][NextIO]_vars

\* SpecTrunc: SpecIO with files that are cut short.  An object whose Read
\* ran into the end of the stream is followed no further than its Reset.
NextTrunc ==
  \/ ~ret.failbit /\ NextIO
  \/ ret.failbit /\ Reset
  \/ \E cut \in CutPoints : ~ret.failbit /\ Truncate(cut)

SpecTrunc == Init /\ [][NextTrunc]_vars

\* SpecPipeline: the build pipeline.  A fresh or Reset file learns its
\* embedding from at least two descriptors, then takes entries and idf
\* weights in any order, then is sorted; after a sort it takes entries again
\* or is Reset.  op, the operation that returned last, is the position in
\* the pipeline.
NextPipeline ==
  \/ \E descriptors \in Matrices :
       /\ op \in {"InvertedFile", "Reset"}
       /\ Len(descriptors) >= 2
       /\ ComputeHammingEmbedding(descriptors)
  \/ \E image_id \in ImageIds, descriptor \in Descs :
       /\ op \in {"ComputeHammingEmbedding", "AddEntry", "ComputeIDFWeight", "SortEntries"}
       /\ Len(entries_) < MaxEntries
       /\ AddEntry(image_id, descriptor)
  \/ \E num_total_images \in TotalImages :
       /\ op \in {"ComputeHammingEmbedding", "AddEntry", "ComputeIDFWeight"}
       /\ ComputeIDFWeight(num_total_images)
  \/ /\ op \in {"ComputeHammingEmbedding", "AddEntry", "ComputeIDFWeight"}
     /\ SortEntries
  \/ op = "SortEntries" /\ Reset

SpecPipeline == Init /\ [][NextPipeline]_vars

(***************************************************************************)
(* Properties.                                                             *)
(***************************************************************************)
Returned(name) == op = name /\ ~aborted

ScoredIds == [i \in 1 .. Len(ret.image_scores) |-> ret.image_scores[i].image_id]

CountOf(es, e) == Cardinality({i \in 1 .. Len(es) : es[i] = e})

IsPermutation(a, b) ==
  /\ Len(a) = Len(b)
  /\ \A i \in 1 .. Len(a) : CountOf(a, a[i]) = CountOf(b, a[i])

\* C1: a ScoreFeature call on a file whose status is not USABLE (0x03)
\* returns an empty score list, whatever the query and the entries.
C1_ScoreEmptyUnlessUsable ==
  (Returned("ScoreFeature") /\ status_ # USABLE) => ret.image_scores = <<>>

\* C2: IsUsable() is true exactly when HasHammingEmbedding() and
\* EntriesSorted() are both true.
C2_UsableIffBothBits ==
  IsUsable <=> (HasHammingEmbedding /\ EntriesSorted)

\* C3: AddEntry with image_id >= 0 appends exactly one entry behind the
\* entries there were, which keep value and position; EntriesSorted() is
\* false afterwards; HAS_HE, thresholds and idf_weight are unchanged; from
\* USABLE the status becomes HAS_HAMMING_EMBEDDING alone.
C3_AddEntryAppends ==
  [][(op' = "AddEntry" /\ ~aborted') =>
       /\ \E image_id \in ImageIds, descriptor \in Descs \cup IODescs :
            /\ image_id >= 0
            /\ entries_' = Append(entries_,
                 [image_id |-> image_id,
                  descriptor |-> ConvertToBinaryDescriptor(descriptor, thresholds_)])
       /\ ~EntriesSorted'
       /\ HasHammingEmbedding' = HasHammingEmbedding
       /\ thresholds_' = thresholds_
       /\ idf_weight_' = idf_weight_
       /\ (status_ = USABLE => status_' = HAS_HAMMING_EMBEDDING)]_vars

C3_Witness ==
  /\ Returned("AddEntry")
  /\ pre.status = USABLE
  /\ status_ = HAS_HAMMING_EMBEDDING
  /\ Len(entries_) = 3
  /\ entries_[3].image_id < entries_[2].image_id

\* C4: after SortEntries the entries are non-decreasing by image_id and a
\* permutation of the entries before the call; EntriesSorted() is true;
\* HAS_HE, thresholds and idf_weight are unchanged.
C4_SortEntriesSorts ==
  [][(op' = "SortEntries") =>
       /\ IsSortedById(entries_')
       /\ IsPermutation(entries_, entries_')
       /\ EntriesSorted'
       /\ HasHammingEmbedding' = HasHammingEmbedding
       /\ thresholds_' = thresholds_
       /\ idf_weight_' = idf_weight_]_vars

C4_Witness ==
  /\ Returned("SortEntries")
  /\ pre.status = HAS_HAMMING_EMBEDDING
  /\ status_ = USABLE
  /\ Len(entries_) = 3
  /\ entries_[1].image_id < entries_[3].image_id
  /\ entries_[1].descriptor # entries_[2].descriptor

\* C5 as stated: no operation other than SortEntries, Read included, sets
\* a clear ENTRIES_SORTED bit.
C5_OnlySortSetsSorted ==
  [][(~EntriesSorted /\ op' # "SortEntries") => ~EntriesSorted']_vars

\* C5 as amended: no operation other than SortEntries and Read sets a clear
\* ENTRIES_SORTED bit (Read stores the status byte of the stream).
C5_OnlySortOrReadSetsSorted ==
  [][(~EntriesSorted /\ op' \notin {"SortEntries", "Read"}) => ~EntriesSorted']_vars

C5_Witness ==
  /\ Returned("ClearEntries")
  /\ pre.status = HAS_HAMMING_EMBEDDING
  /\ pre.num_entries = 2
  /\ ~EntriesSorted

\* C6 as stated: no operation other than ComputeHammingEmbedding, Read
\* included, sets a clear HAS_HE bit.
C6_OnlyEmbeddingSetsHE ==
  [][(~HasHammingEmbedding /\ op' # "ComputeHammingEmbedding")
       => ~HasHammingEmbedding']_vars

\* C6 as amended: no operation other than ComputeHammingEmbedding and Read
\* sets a clear HAS_HE bit (Read stores the status byte of the stream).
C6_OnlyEmbeddingOrReadSetsHE ==
  [][(~HasHammingEmbedding /\ op' \notin {"ComputeHammingEmbedding", "Read"})
       => ~HasHammingEmbedding']_vars

C6_Witness ==
  /\ Returned("SortEntries")
  /\ pre.status = UNUSABLE
  /\ pre.num_entries = 2
  /\ status_ = ENTRIES_SORTED

\* C7: Reset leaves the object as the constructor does: status 0, idf
\* weight 0, no entries, all N thresholds zero.
C7_ResetIsFresh ==
  Returned("Reset") =>
    /\ status_ = UNUSABLE
    /\ idf_weight_ = ZeroIdf
    /\ entries_ = <<>>
    /\ \A i \in Dims : thresholds_[i] = 0

C7_Witness ==
  /\ Returned("Reset")
  /\ pre.status = USABLE
  /\ pre.num_entries = 3
  /\ pre.idf_weight # ZeroIdf
  /\ pre.thresholds # ZeroThresholds

\* C8: on a file with both status bits set and entries, ScoreFeature emits
\* one pair per distinct image_id of the entries, in ascending image_id
\* order: the emitted ids are the set GetImageIds produces.
C8_ScoreOnePairPerImage ==
  (Returned("ScoreFeature") /\ status_ = USABLE /\ entries_ # <<>>) =>
    /\ \A i \in 1 .. (Len(ScoredIds) - 1) : ScoredIds[i] < ScoredIds[i + 1]
    /\ {ScoredIds[i] : i \in 1 .. Len(ScoredIds)} = GetImageIdsInto({})
    /\ Len(ScoredIds) = Cardinality(GetImageIdsInto({}))

C8_Witness ==
  /\ Returned("ScoreFeature")
  /\ status_ = USABLE
  /\ Len(entries_) = 3
  /\ ScoredIds = <<0, 1>>
  /\ ret.image_scores[2].score.votes = 2

\* C9: a Read of the stream a Write filled leaves the reading object with
\* the status, idf weight, thresholds and entries sequence the written
\* object had, whatever the reader held before.
C9_RoundTrip ==
  [][(Loading /\ op' = "Read" /\ ~aborted') =>
       /\ status_' = written.status
       /\ idf_weight_' = written.idf_weight
       /\ thresholds_' = written.thresholds
       /\ entries_' = written.entries]_vars

C9_Witness ==
  /\ Returned("Read")
  /\ status_ = USABLE
  /\ Len(entries_) = 1
  /\ pre.num_entries = 2
  /\ pre.status = HAS_HAMMING_EMBEDDING
  /\ pre.idf_weight # idf_weight_
  /\ pre.thresholds # thresholds_
  /\ idf_weight_ # ZeroIdf

\* C10 as stated: whenever ComputeIDFWeight is called while entries is
\* empty, idf_weight is 0 after the call.
C10_IdfZeroOnEmpty ==
  (Returned("ComputeIDFWeight") /\ entries_ = <<>>) => idf_weight_ = ZeroIdf

\* C10 as amended: whenever ComputeIDFWeight is called while entries is
\* empty, idf_weight after the call is what it was before the call.
C10_IdfUnchangedOnEmpty ==
  [][(op' = "ComputeIDFWeight" /\ entries_ = <<>>) => idf_weight_' = idf_weight_]_vars

C10_Witness ==
  /\ Returned("ComputeIDFWeight")
  /\ entries_ = <<>>
  /\ idf_weight_ # ZeroIdf

\* The number of distinct image ids among the entries.
NumDistinctImages == Cardinality({entries_[i].image_id : i \in 1 .. Len(entries_)})

\* C11: ComputeIDFWeight(num_total_images) changes nothing when entries is
\* empty; otherwise it sets idf_weight to ln(1 + num_total_images / U), U
\* the number of distinct image ids among the entries (not the number of
\* entries, so neither their order nor duplicates matter); it always leaves
\* status, entries and thresholds as they were.
C11_IdfFromDistinctImages ==
  [][\A num_total_images \in TotalImages :
       ComputeIDFWeight(num_total_images) =>
         /\ UNCHANGED <<status_, entries_, thresholds_>>
         /\ entries_ = <<>> => UNCHANGED idf_weight_
         /\ entries_ # <<>> =>
              idf_weight_' = LogOnePlus(num_total_images, NumDistinctImages)]_vars

\* C11's case: three unsorted entries of two images, weighed with two images
\* in total: ln(1 + 2/2), not ln(1 + 2/3).
C11_Witness ==
  /\ Returned("ComputeIDFWeight")
  /\ Len(entries_) = 3
  /\ NumDistinctImages = 2
  /\ ~IsSortedById(entries_)
  /\ pre.idf_weight = ZeroIdf
  /\ idf_weight_ = <<1, 1>>

\* The medians of the columns of a descriptor matrix.
ColumnMedians(descriptors) ==
  [n \in Dims |-> Median([i \in 1 .. Len(descriptors) |-> descriptors[i][n]])]

\* C12: ComputeHammingEmbedding with fewer than two rows changes nothing:
\* thresholds, status, entries and idf_weight stay, and HAS_HAMMING_EMBEDDING
\* is not set by the call; with two rows or more it sets
\* HAS_HAMMING_EMBEDDING and overwrites all N thresholds.
C12_EmbeddingNeedsTwoRows ==
  [][\A descriptors \in Matrices :
       ComputeHammingEmbedding(descriptors) =>
         /\ Len(descriptors) < 2 => UNCHANGED object
         /\ Len(descriptors) >= 2 =>
              /\ status_' = BitOr(status_, HAS_HAMMING_EMBEDDING)
              /\ thresholds_' = ColumnMedians(descriptors)
              /\ UNCHANGED <<entries_, idf_weight_>>]_vars

\* C12's case: a ComputeHammingEmbedding call on a file with entries and a
\* weight returned without the bit: it was given fewer than two rows.
C12_Witness ==
  /\ Returned("ComputeHammingEmbedding")
  /\ ~HasHammingEmbedding
  /\ status_ = pre.status
  /\ thresholds_ = pre.thresholds
  /\ Len(entries_) = 2
  /\ idf_weight_ # ZeroIdf

\* C13: on the build pipeline (a fresh or Reset file, one
\* ComputeHammingEmbedding with at least two rows, any number of AddEntry
\* and ComputeIDFWeight calls in any order, then SortEntries) every
\* SortEntries returns with status 0x03, the SortEntries after a later
\* AddEntry included.  Checked in SpecPipeline.
C13_PipelineEndsUsable ==
  Returned("SortEntries") => status_ = USABLE

\* C13's case: the pipeline's SortEntries returned on a file of three entries
\* with a weight, whose last AddEntry had cleared ENTRIES_SORTED.
C13_Witness ==
  /\ Returned("SortEntries")
  /\ pre.status = HAS_HAMMING_EMBEDDING
  /\ status_ = USABLE
  /\ Len(entries_) = 3
  /\ idf_weight_ # ZeroIdf

\* The positions of the entries of one image.
EntriesOf(image_id) == {i \in 1 .. Len(entries_) : entries_[i].image_id = image_id}

\* The sum, over the entries at the positions S, of the weight of the
\* Hamming distance between the query signature and the entry's.
RECURSIVE WeightSum(_, _)
WeightSum(S, query) ==
  IF S = {} THEN 0
  ELSE LET i == CHOOSE i \in S : TRUE
       IN HammingDistWeight(HammingDist(query, entries_[i].descriptor))
          + WeightSum(S \ {i}, query)

\* C14: on a usable file with sorted entries ScoreFeature emits, for some
\* query descriptor, one pair per image of the file, and the pair of image I
\* is computed from exactly the k entries of I: the raw sum of their
\* weights, divided by sqrt(k), times this file's idf_weight squared.  (A
\* score is the record of raw sum, k and idf_weight.)  So every entry counts
\* in exactly one pair, and doubling the entries of one image doubles its k
\* and raw sum and leaves the other pairs alone.
C14_BurstNormalizedScore ==
  (Returned("ScoreFeature") /\ status_ = USABLE /\ IsSortedById(entries_)
     /\ entries_ # <<>>) =>
    \E descriptor \in Descs :
      LET query == [i \in Dims |-> descriptor[i] > thresholds_[i]]
      IN /\ Len(ret.image_scores) = NumDistinctImages
         /\ \A id \in {entries_[i].image_id : i \in 1 .. Len(entries_)} :
              \E j \in 1 .. Len(ret.image_scores) :
                ret.image_scores[j] =
                  [image_id |-> id,
                   score |-> [sum |-> WeightSum(EntriesOf(id), query),
                              votes |-> Cardinality(EntriesOf(id)),
                              idf |-> idf_weight_]]

\* C14's case: a burst of two entries of one image, with weights 1 and 1/2,
\* beside a single entry of another image.
C14_Witness ==
  /\ Returned("ScoreFeature")
  /\ status_ = USABLE
  /\ Len(entries_) = 3
  /\ Len(ret.image_scores) = 2
  /\ idf_weight_ = <<1, 1>>
  /\ \E j \in 1 .. 2 :
       /\ ret.image_scores[j].score.votes = 2
       /\ ret.image_scores[j].score.sum = 6
       /\ ret.image_scores[3 - j].score.votes = 1

\* The stream ends before everything Read goes on to read from it: the
\* status byte, the weight, N thresholds, the entry count and as many entry
\* records as the count declares.
Truncated(bytes) ==
  \/ Len(bytes) < N + 6
  \/ Len(bytes) < N + 6 + Int32At(bytes, N + 3) * EntrySize

\* C15: Read and Write on a stream that is not open fail before a field of
\* the object or a byte of the stream is touched, and a Read on a stream
\* that ends before the status byte, the weight, the N thresholds, the entry
\* count and the declared number of entry records have all been read fails
\* (it aborts or throws) instead of returning like a successful read.
C15_IOFailsOnBadStream ==
  [][/\ (Read(FALSE) \/ Write(FALSE)) => (aborted' /\ UNCHANGED <<object, stream>>)
     /\ (Read(TRUE) /\ Truncated(stream)) => (aborted' \/ ret'.threw)]_vars

\* C16: in every state reached from a fresh file by AddEntry, SortEntries,
\* ClearEntries, Reset, ComputeHammingEmbedding, ComputeIDFWeight and the
\* queries (no Read), a set ENTRIES_SORTED bit means that the image ids of
\* the entries are non-decreasing.
C16_SortedBitMeansSorted ==
  EntriesSorted => IsSortedById(entries_)

\* C16's case: the bit is set on three entries of two images and has stayed
\* set through a ComputeHammingEmbedding call.
C16_Witness ==
  /\ EntriesSorted
  /\ Returned("ComputeHammingEmbedding")
  /\ pre.status = ENTRIES_SORTED
  /\ Len(entries_) = 3
  /\ NumDistinctImages = 2

\* C17: ScoreFeature is a pure query.  It leaves status, idf_weight,
\* thresholds and entries as they were, and what it returns in the
\* container is what it returns in an empty container: nothing of the
\* container's prior content is left, so two calls on the same file state
\* with the same query return the same list whatever the containers held and
\* whatever ScoreFeature calls were made in between.
C17_ScoreFeatureIsPure ==
  [][\A descriptor \in Descs, image_scores \in ScoreContainers :
       ScoreFeature(descriptor, image_scores) =>
         /\ UNCHANGED object
         /\ ret'.image_scores = ScoreFeatureOut(descriptor, <<>>)
         /\ \A j \in 1 .. Len(ret'.image_scores) :
              /\ EntriesOf(ret'.image_scores[j].image_id) # {}
              /\ ret'.image_scores[j].score.idf = idf_weight_]_vars

\* C17's case: ScoreFeature was handed a container that held a stale pair
\* and returned the two pairs of the file, the stale one gone.
C17_Witness ==
  /\ Returned("ScoreFeature")
  /\ ret.stale = 1
  /\ Len(ret.image_scores) = 2
  /\ \A j \in 1 .. 2 : ret.image_scores[j] # StaleScore

RECURSIVE VotesSum(_)
VotesSum(image_scores) ==
  IF image_scores = <<>> THEN 0
  ELSE Head(image_scores).score.votes + VotesSum(Tail(image_scores))

\* C18: whenever ScoreFeature performs its sweep (IsUsable() held and there
\* were entries), sorted entries or not, the image ids it emits are strictly
\* ascending, so none is emitted twice, each occurs in entries, and the vote
\* counts of the emitted pairs add up to the number of entries.
C18_SweepEmitsAscendingIds ==
  (Returned("ScoreFeature") /\ IsUsable /\ entries_ # <<>>) =>
    /\ \A j \in 1 .. Len(ScoredIds) - 1 : ScoredIds[j] < ScoredIds[j + 1]
    /\ \A j \in 1 .. Len(ScoredIds) : EntriesOf(ScoredIds[j]) # {}
    /\ VotesSum(ret.image_scores) = Len(entries_)

\* C18's case: a sweep over unsorted entries, which counts an entry of the
\* smaller image id in the pair of the larger one.
C18_Witness ==
  /\ Returned("ScoreFeature")
  /\ ~IsSortedById(entries_)
  /\ Len(entries_) = 3
  /\ Len(ret.image_scores) = 2
  /\ ret.image_scores[2].score.votes = 2
  /\ Cardinality(EntriesOf(ret.image_scores[2].image_id)) = 1

\* C19: ClearEntries, from any state, empties entries and clears
\* ENTRIES_SORTED and leaves HAS_HAMMING_EMBEDDING, the thresholds and
\* idf_weight (a non-zero one too) exactly as they were, so a file with
\* status 0x03 is left with status 0x01; and with ENTRIES_SORTED clear no
\* operation but SortEntries brings the status to 0x03.
C19_ClearEntriesKeepsLearned ==
  [][/\ op' = "ClearEntries" =>
          /\ entries_' = <<>>
          /\ ~EntriesSorted'
          /\ HasHammingEmbedding' <=> HasHammingEmbedding
          /\ UNCHANGED <<thresholds_, idf_weight_>>
          /\ status_ = USABLE => status_' = HAS_HAMMING_EMBEDDING
     /\ (~EntriesSorted /\ op' # "SortEntries") => status_' # USABLE]_vars

\* C19's case: ClearEntries on a usable file of three entries with learned
\* thresholds and a non-zero weight.
C19_Witness ==
  /\ Returned("ClearEntries")
  /\ pre.status = USABLE
  /\ pre.num_entries = 3
  /\ status_ = HAS_HAMMING_EMBEDDING
  /\ entries_ = <<>>
  /\ thresholds_ # ZeroThresholds
  /\ idf_weight_ = <<2, 1>>

RECURSIVE ScoreSum(_)
ScoreSum(image_scores) ==
  IF image_scores = <<>> THEN 0
  ELSE Head(image_scores).score.sum + ScoreSum(Tail(image_scores))

\* C20: signatures are fixed at insertion.  AddEntry stores bit i of the
\* signature as descriptor[i] > thresholds[i], strictly, with the thresholds
\* of the moment of the call; a later ComputeHammingEmbedding changes
\* nothing but the thresholds and the HAS_HAMMING_EMBEDDING bit: the entries
\* (ids and signatures), the ENTRIES_SORTED bit and idf_weight stay, so the
\* entries keep the signatures of the old thresholds, while ScoreFeature
\* converts its query with the thresholds of the moment of the query.
C20_SignaturesFixedAtInsertion ==
  [][/\ \A image_id \in ImageIds, descriptor \in Descs :
          (image_id >= 0 /\ AddEntry(image_id, descriptor)) =>
            entries_'[Len(entries_')] =
              [image_id |-> image_id,
               descriptor |-> [i \in Dims |-> descriptor[i] > thresholds_[i]]]
     /\ op' = "ComputeHammingEmbedding" =>
          /\ UNCHANGED <<entries_, idf_weight_>>
          /\ EntriesSorted' <=> EntriesSorted
          /\ BitOr(status_', HAS_HAMMING_EMBEDDING) = BitOr(status_, HAS_HAMMING_EMBEDDING)
     /\ \A descriptor \in Descs, image_scores \in ScoreContainers :
          (ScoreFeature(descriptor, image_scores) /\ IsUsable /\ entries_ # <<>>) =>
            ScoreSum(ret'.image_scores) =
              WeightSum(1 .. Len(entries_),
                        [i \in Dims |-> descriptor[i] > thresholds_[i]])]_vars

\* C20's case: ComputeHammingEmbedding replaced the zero thresholds and an
\* entry inserted before keeps a signature that no descriptor of the inputs
\* has under the new thresholds.
C20_Witness ==
  /\ Returned("ComputeHammingEmbedding")
  /\ pre.thresholds = ZeroThresholds
  /\ thresholds_ # ZeroThresholds
  /\ \E i \in 1 .. Len(entries_) :
       \A descriptor \in Descs :
         entries_[i].descriptor # [k \in Dims |-> descriptor[k] > thresholds_[k]]

====
